---- MODULE Spec2Model ----
(***************************************************************************)
(* Model of the crews-live job orchestration.                              *)
(*                                                                         *)
(*  - CrewService (src/server/services/crew.ts) behind the route           *)
(*    POST /api/generate of src/server/routes.ts: specification Spec.      *)
(*  - EnhancedCodeGenerationService                                        *)
(*    (src/attached_assets/enhanced-code-generation_1757792188503.ts)      *)
(*    behind the express server of src/shared/types.ts (lines 108-438):    *)
(*    specification SpecEnhanced.                                          *)
(*                                                                         *)
(* A step of the model is one run of the JavaScript event loop: a request  *)
(* handler, a timer callback or the continuation of an awaited promise,    *)
(* from its start to the next await of a timer or of the model call.       *)
(*                                                                         *)
(* Strings are modelled by their shape: pad leading whitespace characters  *)
(* followed by the word `word` of n non-whitespace characters.  Time       *)
(* stamps (startTime, endTime, timestamp) are left out.                    *)
(***************************************************************************)
EXTENDS Integers, Sequences, FiniteSets, TLC

\* ----------------------------------------------------------------- bounds
\* number of job ids nanoid() hands out in a behaviour
MaxJobs == 2

\* ------------------------------------------------------------- strings
S(pad, word, n) == [pad |-> pad, word |-> word, n |-> n]
EmptyStr == S(0, "", 0)
Length(s) == s.pad + s.n
\* JavaScript truthiness of a string: "" is falsy
Truthy(s) == Length(s) > 0
trim(s) == IF s.n = 0 THEN EmptyStr ELSE [s EXCEPT !.pad = 0]
LowerWord(w) ==
  CASE w = "Python" -> "python"
    [] w = "TypeScript" -> "typescript"
    [] OTHER -> w
toLowerCase(s) == [s EXCEPT !.word = LowerWord(@)]

\* the maximum of validateGenerationRequest and sanitizeInput
MaxRequirementsLength == 10000

\* the values a client may send
RequirementsInputs ==
  { EmptyStr, S(1, "", 0), S(0, "Build a todo app", 16),
    S(0, "long text", MaxRequirementsLength + 1) }
FrameworkInputs == { EmptyStr, S(0, "react", 5) }
LanguageInputs == { EmptyStr, S(0, "python", 6) }
\* a string of one blank
Blank == S(1, "", 0)
Body(r, f, l) == [requirements |-> r, framework |-> f, language |-> l]
TodoApp == S(0, "Build a todo app", 16)
React == S(0, "react", 5)
Python == S(0, "python", 6)
\* the request bodies the model submits: every combination of empty and
\* non-empty fields, the other requirements with the remaining fields
\* valid, and the body of three blank fields
Bodies ==
  { Body(r, f, l) : r \in {EmptyStr, TodoApp}, f \in FrameworkInputs,
                    l \in {EmptyStr, Python} }
  \cup { Body(r, React, Python) : r \in RequirementsInputs }
  \cup { Body(TodoApp, React, l) : l \in LanguageInputs }
  \cup { Body(Blank, Blank, Blank) }

\* ------------------------------------------------------------- agents
\* createAgents(): the four agents, in this order
\* createAgents with the architect built before the product manager
createAgentsReordered ==
  << "Solution Architect", "Product Manager", "Senior Developer", "QA Engineer" >>
createAgents ==
  << "Product Manager", "Solution Architect", "Senior Developer", "QA Engineer" >>
NumAgents == Len(createAgents)

NoOutput == [src |-> "undefined", role |-> ""]
\* generateRoleSpecificResponse: the canned text of the agent's role
generateRoleSpecificResponse(role) == [src |-> "canned", role |-> role]
\* the text the model returns for a role (one abstract text per role)
LlmReply(role) == [src |-> "llm", role |-> role]

\* execute calling the model whether or not a credential is set
executeAlwaysCallsModel(role, cred, llmFails) ==
  IF llmFails THEN [ok |-> FALSE, output |-> NoOutput]
  ELSE [ok |-> TRUE, output |-> LlmReply(role)]

\* AIAgent.execute: without a credential the canned response; with one the
\* model's reply, or the error the model call raised.
\* ok = FALSE stands for the rejected promise.
execute(role, cred, llmFails) ==
  IF ~cred THEN [ok |-> TRUE, output |-> generateRoleSpecificResponse(role)]
  ELSE IF llmFails THEN [ok |-> FALSE, output |-> NoOutput]
  ELSE [ok |-> TRUE, output |-> LlmReply(role)]

\* the simulated progress loop of executeTasks:
\* for (progress = 0; progress <= 100; progress += 20)
ProgressStep == 20
ProgressMax == 100

\* ------------------------------------------------------------- utils
\* validateGenerationRequest returning at the first violated rule
validateGenerationRequestFirstOnly(request) ==
  IF ~Truthy(request.requirements) \/ Length(trim(request.requirements)) = 0
  THEN << "Requirements are required and cannot be empty" >>
  ELSE IF ~Truthy(request.framework) \/ Length(trim(request.framework)) = 0
  THEN << "Framework is required and cannot be empty" >>
  ELSE IF ~Truthy(request.language) \/ Length(trim(request.language)) = 0
  THEN << "Language is required and cannot be empty" >>
  ELSE IF Length(request.requirements) > MaxRequirementsLength
  THEN << "Requirements are too long (maximum 10,000 characters)" >>
  ELSE << >>

\* validateGenerationRequest: the list of violated rules
validateGenerationRequest(request) ==
  (IF ~Truthy(request.requirements) \/ Length(trim(request.requirements)) = 0
   THEN << "Requirements are required and cannot be empty" >> ELSE << >>)
  \o (IF ~Truthy(request.framework) \/ Length(trim(request.framework)) = 0
      THEN << "Framework is required and cannot be empty" >> ELSE << >>)
  \o (IF ~Truthy(request.language) \/ Length(trim(request.language)) = 0
      THEN << "Language is required and cannot be empty" >> ELSE << >>)
  \o (IF Truthy(request.requirements)
         /\ Length(request.requirements) > MaxRequirementsLength
      THEN << "Requirements are too long (maximum 10,000 characters)" >> ELSE << >>)

\* sanitizeInput: trim, then substring(0, 10000) (the shape of a string holds
\* no angle brackets and no runs of newlines, which it would also remove)
sanitizeInput(s) ==
  LET t == trim(s) IN
  IF t.n > MaxRequirementsLength THEN [t EXCEPT !.n = MaxRequirementsLength] ELSE t

\* the table of getFileExtension
Extensions ==
  [l \in {"javascript", "typescript", "python", "java", "csharp", "cpp", "c",
          "go", "rust", "php", "ruby", "swift", "kotlin"} |->
     CASE l = "javascript" -> "js" [] l = "typescript" -> "ts"
       [] l = "python" -> "py" [] l = "java" -> "java" [] l = "csharp" -> "cs"
       [] l = "cpp" -> "cpp" [] l = "c" -> "c" [] l = "go" -> "go"
       [] l = "rust" -> "rs" [] l = "php" -> "php" [] l = "ruby" -> "rb"
       [] l = "swift" -> "swift" [] l = "kotlin" -> "kt"]

\* extensions is an object literal: a key that is not its own property is
\* looked up in Object.prototype.  Of the names Object.prototype defines,
\* these are the ones toLowerCase() can return; the values are written as a
\* template literal prints them.
InheritedProperties ==
  [w \in {"constructor", "__proto__"} |->
     IF w = "constructor" THEN "function Object() { [native code] }"
     ELSE "[object Object]"]

\* getFileExtension: extensions[language.toLowerCase()] || 'txt'
getFileExtension(language) ==
  LET l == toLowerCase(language) IN
  CASE l.pad = 0 /\ l.word \in DOMAIN Extensions -> Extensions[l.word]
    [] l.pad = 0 /\ l.word \in DOMAIN InheritedProperties -> InheritedProperties[l.word]
    [] OTHER -> "txt"

File(base, ext) == [base |-> base, ext |-> ext]

\* generatePackageJson with the main file of its scripts, main.js
generatePackageJsonMainJs(request) ==
  [kind |-> "package.json",
   main |-> File("main", "js"),
   keywords |-> << request.framework, request.language, "generated", "ai" >>]

\* generatePackageJson, the fields that depend on the request's language
generatePackageJson(request) ==
  [kind |-> "package.json",
   main |-> File("main", getFileExtension(request.language)),
   keywords |-> << request.framework, request.language, "generated", "ai" >>]

\* generateReadme
generateReadme(request, codeContent) ==
  [kind |-> "README", framework |-> request.framework, language |-> request.language]

\* role.toLowerCase()
LowerRole(role) ==
  CASE role = "Product Manager" -> "product manager"
    [] role = "Solution Architect" -> "solution architect"
    [] role = "Senior Developer" -> "senior developer"
    [] role = "QA Engineer" -> "qa engineer"
    [] OTHER -> role

\* compileCodeFiles, the files one agent output adds
FilesOf(output, request) ==
  LET ext == getFileExtension(request.language) IN
  CASE LowerRole(output.role) = "product manager" ->
         File("PROJECT_SPECIFICATION", "md") :> output.content
    [] LowerRole(output.role) = "solution architect" ->
         File("ARCHITECTURE", "md") :> output.content
    [] LowerRole(output.role) = "senior developer" ->
         (File("main", ext) :> output.content)
         @@ (File("README", "md") :> generateReadme(request, output.content))
         @@ (File("package", "json") :> generatePackageJson(request))
    [] LowerRole(output.role) = "qa engineer" ->
         (File("tests", ext) :> output.content)
         @@ (File("TEST_PLAN", "md") :> output.content)
    [] OTHER -> File(LowerRole(output.role), "md") :> output.content

\* compileCodeFiles: a later output overwrites the file of an earlier one
RECURSIVE compileInto(_, _, _)
compileInto(files, agentOutputs, request) ==
  IF agentOutputs = << >> THEN files
  ELSE compileInto(FilesOf(Head(agentOutputs), request) @@ files,
                   Tail(agentOutputs), request)
compileCodeFiles(agentOutputs, request) == compileInto(<< >>, agentOutputs, request)

\* ------------------------------------------------------------- state
VARIABLES
  credential,   \* process.env.CEREBRAS_API_KEY is set
  nextJob,      \* how many job ids nanoid() has handed out
  activeJobs,   \* the service's activeJobs: job id -> job record, or NoJob
  pc,           \* where each job's startGeneration task waits
  loopI,        \* executeTasks: the loop index i (0-based)
  context,      \* executeTasks: the local variable context
  agentCalls,   \* per job, every agent call made: its arguments and outcome
  events,       \* per job, the events sent to the clients, in order
  timers,       \* jobs whose eviction setTimeout is pending
  immediate,    \* per job, the request its pending setImmediate will start
  crew,         \* per job, the tasks of the crew built for it
  last,         \* the HTTP response of the last step
  \* the client's useWebSocket hook
  ws,                   \* ws.current: a socket of sockets, 0 for null
  sockets,              \* every WebSocket the hook created: its readyState
  connectionStatus,
  lastEvent,            \* the type of the last message, "" for null
  clientId,             \* 0 for null
  reconnectTimeoutRef,  \* reconnectTimeoutRef.current, 0 for undefined
  timeouts,             \* the reconnect timeouts that are pending
  reconnectAttempts,
  disconnectCalled      \* disconnect() ran and connect() was not called since

serverVars ==
  << credential, nextJob, activeJobs, pc, loopI, context, agentCalls,
     events, timers, immediate, crew, last >>
hookVars ==
  << ws, sockets, connectionStatus, lastEvent, clientId, reconnectTimeoutRef,
     timeouts, reconnectAttempts, disconnectCalled >>
vars == << serverVars, hookVars >>

\* useWebSocket before its first effect ran
HookInit ==
  /\ ws = 0
  /\ sockets = << >>
  /\ connectionStatus = "disconnected"
  /\ lastEvent = ""
  /\ clientId = 0
  /\ reconnectTimeoutRef = 0
  /\ timeouts = {}
  /\ reconnectAttempts = 0
  /\ disconnectCalled = FALSE

JobIds == 1..MaxJobs
NoRequest == Body(EmptyStr, EmptyStr, EmptyStr)
NoJob ==
  [status |-> "absent", progress |-> 0, currentAgent |-> "", tasks |-> << >>,
   request |-> NoRequest, error |-> "", ended |-> FALSE]

\* one broadcast event; of the request echoed by generation_started the
\* payload keeps the language, the field the artifacts depend on
Ev(type) ==
  [type |-> type, agent |-> "", progress |-> 0, output |-> NoOutput,
   error |-> "", details |-> << >>, files |-> << >>, code |-> << >>,
   language |-> EmptyStr]

\* the HTTP response of the step, NoCall for a step that serves no request
Last(op, job, status, result) ==
  [op |-> op, job |-> job, status |-> status, result |-> result]
NoCall == Last("none", 0, 0, "")

\* ------------------------------------------------------------- CrewService
\* createTasks: one pending task per agent, in the agents' order
createTasks(request) ==
  [i \in 1..NumAgents |->
     [agent |-> createAgents[i], status |-> "pending", output |-> NoOutput]]

\* context = ... instead of context += ...
AppendContextOverwrites(ctx, role, output) ==
  << [sep |-> "\n\n", role |-> role, label |-> " Output:\n", output |-> output] >>

\* context += `\n\n${agent.role} Output:\n${output}`
AppendContext(ctx, role, output) ==
  Append(ctx, [sep |-> "\n\n", role |-> role, label |-> " Output:\n",
               output |-> output])

\* generateCodeFiles: the fixed example files, whatever the tasks produced
generateCodeFiles(jobStatus) ==
  << [path |-> [base |-> "src/App", ext |-> "tsx"], language |-> "typescript"],
     [path |-> [base |-> "src/components/Header", ext |-> "tsx"],
      language |-> "typescript"],
     [path |-> [base |-> "package", ext |-> "json"], language |-> "json"] >>

\* executeTasks, the task of index i (0-based) goes in_progress
BeginTask(jobs, j, i) ==
  [jobs EXCEPT ![j].tasks[i + 1].status = "in_progress",
               ![j].currentAgent = jobs[j].tasks[i + 1].agent,
               ![j].progress = (i * 100) \div NumAgents]

\* the task keeps its status when its agent returned
CompleteTaskKeepsStatus(jobs, j, i, output) ==
  [jobs EXCEPT ![j].tasks[i + 1].output = output]

\* executeTasks, the agent of task i returned output
CompleteTask(jobs, j, i, output) ==
  [jobs EXCEPT ![j].tasks[i + 1].output = output,
               ![j].tasks[i + 1].status = "completed"]

\* the catch of executeTasks rethrows without marking the task
FailTaskLeavesStatus(jobs, j, i) == jobs

\* executeTasks, the agent of task i threw
FailTask(jobs, j, i) ==
  [jobs EXCEPT ![j].tasks[i + 1].status = "failed"]

\* executeTasks, top of the loop body for index i: the task goes
\* in_progress, agent_started is broadcast and agent.execute is called
StartTask(j, i, jobs, evs, ctx) ==
  LET role == jobs[j].tasks[i + 1].agent IN
  /\ activeJobs' = BeginTask(jobs, j, i)
  /\ events' = [evs EXCEPT ![j] = Append(@, [Ev("agent_started") EXCEPT !.agent = role])]
  /\ agentCalls' =
       [agentCalls EXCEPT ![j] =
          Append(@, [agent |-> role, context |-> ctx, result |-> "pending"])]
  /\ loopI' = [loopI EXCEPT ![j] = i]
  /\ pc' = [pc EXCEPT ![j] = "agent"]

\* completeGeneration returning before it writes anything
completeGenerationReturnsEarly(j, jobs, evs) ==
  /\ activeJobs' = jobs
  /\ events' = evs
  /\ timers' = timers

\* completeGeneration without its setTimeout
completeGenerationNoTimer(j, jobs, evs) ==
  IF jobs[j].status = "absent"
  THEN /\ activeJobs' = jobs
       /\ events' = evs
       /\ timers' = timers
  ELSE LET done == [jobs EXCEPT ![j].status = "completed", ![j].progress = 100] IN
       /\ activeJobs' = done
       /\ events' =
            [evs EXCEPT ![j] =
               Append(@, [Ev("generation_completed") EXCEPT
                            !.files = generateCodeFiles(done[j])])]
       /\ timers' = timers

\* completeGeneration
completeGeneration(j, jobs, evs) ==
  IF jobs[j].status = "absent"
  THEN /\ activeJobs' = jobs
       /\ events' = evs
       /\ timers' = timers
  ELSE LET done == [jobs EXCEPT ![j].status = "completed", ![j].progress = 100] IN
       /\ activeJobs' = done
       /\ events' =
            [evs EXCEPT ![j] =
               Append(@, [Ev("generation_completed") EXCEPT
                            !.files = generateCodeFiles(done[j])])]
       /\ timers' = timers \cup {j}

\* failGeneration
failGeneration(j, jobs, evs, message) ==
  IF jobs[j].status = "absent"
  THEN /\ activeJobs' = jobs
       /\ events' = evs
  ELSE /\ activeJobs' = [jobs EXCEPT ![j].status = "failed"]
       /\ events' =
            [evs EXCEPT ![j] = Append(@, [Ev("generation_failed") EXCEPT !.error = message])]

\* POST /api/generate answering only after the first agent has returned
PostGenerateAwaitsFirstStage(body) ==
  IF ~Truthy(body.requirements) \/ ~Truthy(body.framework) \/ ~Truthy(body.language)
  THEN /\ last' = Last("generate", 0, 400,
                       "Missing required fields: requirements, framework, language")
       /\ UNCHANGED << hookVars, credential, nextJob, activeJobs, pc, loopI, context,
                       agentCalls, events, timers, immediate, crew >>
  ELSE /\ nextJob < MaxJobs
       /\ LET j == nextJob + 1
              request == [body EXCEPT !.requirements = trim(@)]
              jobStatus == [NoJob EXCEPT !.status = "in_progress",
                                         !.tasks = createTasks(request)]
              jobs == [activeJobs EXCEPT ![j] = jobStatus]
              role == jobStatus.tasks[1].agent
              out == execute(role, credential, FALSE).output
          IN /\ nextJob' = j
             /\ activeJobs' = CompleteTask(BeginTask(jobs, j, 0), j, 0, out)
             /\ context' = [context EXCEPT ![j] = AppendContext(<< >>, role, out)]
             /\ events' =
                  [events EXCEPT ![j] =
                     << [Ev("generation_started") EXCEPT !.language = request.language],
                        [Ev("agent_started") EXCEPT !.agent = role],
                        [Ev("agent_completed") EXCEPT !.agent = role, !.output = out] >>]
             /\ agentCalls' =
                  [agentCalls EXCEPT ![j] =
                     << [agent |-> role, context |-> << >>, result |-> "returned"] >>]
             /\ loopI' = [loopI EXCEPT ![j] = 0]
             /\ pc' = [pc EXCEPT ![j] = "progress"]
             /\ last' = Last("generate", j, 200, "Code generation started")
       /\ UNCHANGED << hookVars, credential, timers, immediate, crew >>

\* POST /api/generate of routes.ts, with startGeneration up to its first await
PostGenerate(body) ==
  IF ~Truthy(body.requirements) \/ ~Truthy(body.framework) \/ ~Truthy(body.language)
  THEN /\ last' = Last("generate", 0, 400,
                       "Missing required fields: requirements, framework, language")
       /\ UNCHANGED << hookVars, credential, nextJob, activeJobs, pc, loopI, context,
                       agentCalls, events, timers, immediate, crew >>
  ELSE /\ nextJob < MaxJobs
       /\ LET j == nextJob + 1
              request == [body EXCEPT !.requirements = trim(@)]
              jobStatus == [NoJob EXCEPT !.status = "in_progress",
                                         !.tasks = createTasks(request)]
              jobs == [activeJobs EXCEPT ![j] = jobStatus]
              evs == [events EXCEPT ![j] =
                        Append(@, [Ev("generation_started") EXCEPT
                                     !.language = request.language])]
          IN /\ nextJob' = j
             /\ context' = [context EXCEPT ![j] = << >>]
             /\ StartTask(j, 0, jobs, evs, << >>)
             /\ last' = Last("generate", j, 200, "Code generation started")
       /\ UNCHANGED << hookVars, credential, timers, immediate, crew >>

\* executeTasks calling the agent of a task a second time when it threw
AgentSettlesRetries(j, llmFails) ==
  /\ pc[j] = "agent"
  /\ llmFails \in (IF credential THEN BOOLEAN ELSE {FALSE})
  /\ LET i == loopI[j]
         role == activeJobs[j].tasks[i + 1].agent
         r == execute(role, credential, llmFails)
     IN IF r.ok
        THEN /\ activeJobs' = CompleteTask(activeJobs, j, i, r.output)
             /\ context' = [context EXCEPT ![j] = AppendContext(@, role, r.output)]
             /\ events' =
                  [events EXCEPT ![j] =
                     Append(@, [Ev("agent_completed") EXCEPT
                                  !.agent = role, !.output = r.output])]
             /\ agentCalls' =
                  [agentCalls EXCEPT ![j][Len(agentCalls[j])].result = "returned"]
             /\ pc' = [pc EXCEPT ![j] = "progress"]
             /\ UNCHANGED << hookVars, credential, nextJob, loopI, timers >>
        ELSE IF Len(agentCalls[j]) = i + 1
        THEN /\ agentCalls' =
                  [agentCalls EXCEPT ![j] =
                     Append([@ EXCEPT ![i + 1].result = "threw"],
                            [agent |-> role, context |-> context[j],
                             result |-> "pending"])]
             /\ UNCHANGED << hookVars, credential, nextJob, activeJobs, pc, loopI, context,
                             events, timers >>
        ELSE /\ failGeneration(j, FailTask(activeJobs, j, i), events,
                               "Cerebras AI error for agent")
             /\ agentCalls' =
                  [agentCalls EXCEPT ![j][Len(agentCalls[j])].result = "threw"]
             /\ pc' = [pc EXCEPT ![j] = "done"]
             /\ UNCHANGED << hookVars, credential, nextJob, loopI, context, timers >>
  /\ last' = NoCall
  /\ UNCHANGED << immediate, crew >>

\* the awaited agent.execute of task loopI[j] settles
AgentSettles(j, llmFails) ==
  /\ pc[j] = "agent"
  /\ llmFails \in (IF credential THEN BOOLEAN ELSE {FALSE})
  /\ LET i == loopI[j]
         role == activeJobs[j].tasks[i + 1].agent
         r == execute(role, credential, llmFails)
     IN IF r.ok
        THEN /\ activeJobs' = CompleteTask(activeJobs, j, i, r.output)
             /\ context' = [context EXCEPT ![j] = AppendContext(@, role, r.output)]
             /\ events' =
                  [events EXCEPT ![j] =
                     Append(@, [Ev("agent_completed") EXCEPT
                                  !.agent = role, !.output = r.output])]
             /\ agentCalls' = [agentCalls EXCEPT ![j][i + 1].result = "returned"]
             /\ pc' = [pc EXCEPT ![j] = "progress"]
             /\ UNCHANGED << hookVars, credential, nextJob, loopI, timers >>
        ELSE /\ failGeneration(j, FailTask(activeJobs, j, i), events,
                               "Cerebras AI error for agent")
             /\ agentCalls' = [agentCalls EXCEPT ![j][i + 1].result = "threw"]
             /\ pc' = [pc EXCEPT ![j] = "done"]
             /\ UNCHANGED << hookVars, credential, nextJob, loopI, context, timers >>
  /\ last' = NoCall
  /\ UNCHANGED << immediate, crew >>

\* the agent_progress events of the simulated progress loop, in order
ProgressEvents(role) ==
  [k \in 1..(ProgressMax \div ProgressStep + 1) |->
     [Ev("agent_progress") EXCEPT !.agent = role, !.progress = (k - 1) * ProgressStep]]

\* the simulated progress loop after a task completed (its 100 ms timers,
\* whose callbacks only broadcast, are taken together), then the next turn
\* of the task loop, or the return of executeTasks and completeGeneration
SimulateProgress(j) ==
  /\ pc[j] = "progress"
  /\ LET i == loopI[j]
         role == activeJobs[j].tasks[i + 1].agent
         evs == [events EXCEPT ![j] = @ \o ProgressEvents(role)]
     IN IF i + 1 < NumAgents
        THEN /\ StartTask(j, i + 1, activeJobs, evs, context[j])
             /\ UNCHANGED timers
        ELSE /\ completeGeneration(j, activeJobs, evs)
             /\ pc' = [pc EXCEPT ![j] = "done"]
             /\ UNCHANGED << loopI, agentCalls >>
  /\ last' = NoCall
  /\ UNCHANGED << hookVars, credential, nextJob, context, immediate, crew >>

\* the eviction timer of completeGeneration fires: activeJobs.delete(jobId)
EvictTimer(j) ==
  /\ j \in timers
  /\ timers' = timers \ {j}
  /\ activeJobs' = [activeJobs EXCEPT ![j] = NoJob]
  /\ last' = NoCall
  /\ UNCHANGED << hookVars, credential, nextJob, pc, loopI, context, agentCalls, events,
                  immediate, crew >>

\* getJobStatus
getJobStatus(j) == activeJobs[j]

\* GET /api/job/:jobId: what the route answers in the current state
GetJob(j) ==
  IF getJobStatus(j).status = "absent"
  THEN Last("status", j, 404, "Job not found")
  ELSE Last("status", j, 200, getJobStatus(j).status)

\* ------------------------------------------ EnhancedCodeGenerationService
\* bound on the cancel calls the model makes on jobs that are not finished
MaxCancels == 2
\* number of jobs the model submits to the express server
MaxEnhancedJobs == 1

\* the roles of createCodeGenerationAgents, in stage order
createCodeGenerationAgents == createAgents

\* createCodeGenerationTasks: one pending task per agent
createCodeGenerationTasks(agents) ==
  [k \in 1..Len(agents) |->
     [agentRole |-> agents[k], status |-> "pending", output |-> NoOutput]]

\* crew.getResults().filter(result => result.output).map(...)
agentOutputs(tasks) ==
  LET done == SelectSeq(tasks, LAMBDA r : r.output # NoOutput) IN
  [k \in 1..Len(done) |-> [role |-> done[k].agentRole, content |-> done[k].output]]

\* the finally of startGeneration: setTimeout(() => activeJobs.delete(jobId))
ScheduleCleanup(j) == timers' = timers \cup {j}

\* startGeneration after crew.kickoff() resolved with success
GenerationSucceeded(j, tasks, evs) ==
  LET outs == agentOutputs(tasks)
      compiledCode == compileCodeFiles(outs, activeJobs[j].request)
  IN /\ activeJobs' =
          IF activeJobs[j].status = "absent" THEN activeJobs
          ELSE [activeJobs EXCEPT ![j].status = "completed", ![j].ended = TRUE]
     /\ events' =
          [evs EXCEPT ![j] =
             Append(@, [Ev("generation_completed") EXCEPT !.code = compiledCode])]
     /\ ScheduleCleanup(j)

\* the catch of startGeneration
GenerationFailed(j, evs, errorMessage) ==
  /\ activeJobs' =
       IF activeJobs[j].status = "absent" THEN activeJobs
       ELSE [activeJobs EXCEPT ![j].status = "failed", ![j].error = errorMessage,
                               ![j].ended = TRUE]
  /\ events' =
       [evs EXCEPT ![j] = Append(@, [Ev("generation_failed") EXCEPT !.error = errorMessage])]
  /\ ScheduleCleanup(j)

\* the crew starts the task of stage k and calls its agent.  The crew is
\* built from the agents, the tasks and a logging callback: the job's record
\* in activeJobs, which cancelJob changes, is not handed to it.
KickoffTask(j, k, tasks, calls, ctx) ==
  /\ crew' = [crew EXCEPT ![j] = [tasks EXCEPT ![k].status = "in_progress"]]
  /\ agentCalls' =
       [agentCalls EXCEPT ![j] =
          Append(calls, [agent |-> tasks[k].agentRole, context |-> ctx,
                         result |-> "pending"])]
  /\ loopI' = [loopI EXCEPT ![j] = k - 1]
  /\ pc' = [pc EXCEPT ![j] = "agent"]

\* POST /api/generate of the express server: the job id is answered and
\* startGeneration is left to setImmediate
EnhancedPostGenerate(body) ==
  IF ~Truthy(body.requirements) \/ ~Truthy(body.framework) \/ ~Truthy(body.language)
  THEN /\ last' = Last("generate", 0, 400,
                       "Missing required fields: requirements, framework, language")
       /\ UNCHANGED << hookVars, credential, nextJob, activeJobs, pc, loopI, context,
                       agentCalls, events, timers, immediate, crew >>
  ELSE /\ nextJob < MaxEnhancedJobs
       /\ LET j == nextJob + 1 IN
          /\ nextJob' = j
          /\ immediate' =
               [immediate EXCEPT ![j] =
                  Body(trim(body.requirements), trim(body.framework),
                       trim(body.language))]
          /\ pc' = [pc EXCEPT ![j] = "immediate"]
          /\ last' = Last("generate", j, 200, "Code generation started")
       /\ UNCHANGED << hookVars, credential, activeJobs, loopI, context, agentCalls, events,
                       timers, crew >>

\* the setImmediate callback: startGeneration up to the await of crew.kickoff()
EnhancedStartGeneration(j) ==
  /\ pc[j] = "immediate"
  /\ LET request == immediate[j]
         validationErrors == validateGenerationRequest(request)
     IN IF Len(validationErrors) > 0
        THEN /\ events' =
                  [events EXCEPT ![j] =
                     Append(@, [Ev("generation_failed") EXCEPT
                                  !.error = "Validation failed",
                                  !.details = validationErrors])]
             /\ ScheduleCleanup(j)
             /\ pc' = [pc EXCEPT ![j] = "done"]
             /\ UNCHANGED << activeJobs, loopI, agentCalls, crew >>
        ELSE LET sanitizedRequest ==
                   Body(sanitizeInput(request.requirements),
                        sanitizeInput(request.framework),
                        sanitizeInput(request.language))
             IN /\ activeJobs' =
                     [activeJobs EXCEPT ![j] =
                        [NoJob EXCEPT !.status = "running",
                                      !.request = sanitizedRequest]]
                /\ events' =
                     [events EXCEPT ![j] =
                        Append(@, [Ev("generation_started") EXCEPT
                                     !.language = sanitizedRequest.language])]
                /\ KickoffTask(j, 1,
                     createCodeGenerationTasks(createCodeGenerationAgents),
                     << >>, << >>)
                /\ UNCHANGED timers
  /\ last' = NoCall
  /\ UNCHANGED << hookVars, credential, nextJob, context, immediate >>

\* the agent call of the crew's current task settles; the crew goes on with
\* the next task or kickoff() resolves and startGeneration continues
CrewAgentSettles(j, llmFails) ==
  /\ pc[j] = "agent"
  /\ llmFails \in (IF credential THEN BOOLEAN ELSE {FALSE})
  /\ LET k == loopI[j] + 1
         role == crew[j][k].agentRole
         r == execute(role, credential, llmFails)
     IN IF r.ok
        THEN LET tasks == [crew[j] EXCEPT ![k].status = "completed",
                                          ![k].output = r.output]
                 \* onTaskOutput
                 evs == [events EXCEPT ![j] =
                           Append(@, [Ev("agent_completed") EXCEPT
                                        !.agent = role, !.output = r.output])]
                 ctx == AppendContext(context[j], role, r.output)
             IN /\ context' = [context EXCEPT ![j] = ctx]
                /\ IF k = NumAgents
                   THEN /\ GenerationSucceeded(j, tasks, evs)
                        /\ crew' = [crew EXCEPT ![j] = tasks]
                        /\ agentCalls' = [agentCalls EXCEPT ![j][k].result = "returned"]
                        /\ pc' = [pc EXCEPT ![j] = "done"]
                        /\ UNCHANGED loopI
                   ELSE /\ KickoffTask(j, k + 1, tasks,
                             [agentCalls[j] EXCEPT ![k].result = "returned"], ctx)
                        /\ events' = evs
                        /\ UNCHANGED << activeJobs, timers >>
        ELSE /\ GenerationFailed(j, events, "Cerebras AI error for agent")
             /\ crew' = [crew EXCEPT ![j][k].status = "failed"]
             /\ agentCalls' = [agentCalls EXCEPT ![j][k].result = "threw"]
             /\ pc' = [pc EXCEPT ![j] = "done"]
             /\ UNCHANGED << loopI, context >>
  /\ last' = NoCall
  /\ UNCHANGED << hookVars, credential, nextJob, immediate >>

\* how many times cancelJob has cancelled job j
Cancellations(j) ==
  Len(SelectSeq(events[j], LAMBDA e : e.error = "Job cancelled by user"))

\* how many times cancelJob has cancelled one of the jobs 1..n
RECURSIVE SumCancellations(_)
SumCancellations(n) ==
  IF n = 0 THEN 0 ELSE Cancellations(n) + SumCancellations(n - 1)

\* cancelJob marking every running job of the registry instead of the one
\* it looked up
cancelJobCancelsAll(j) ==
  IF activeJobs[j].status = "absent"
  THEN /\ last' = Last("cancel", j, 200, "Job not found")
       /\ UNCHANGED << activeJobs, events >>
  ELSE IF activeJobs[j].status = "completed" \/ activeJobs[j].status = "failed"
  THEN /\ last' = Last("cancel", j, 200, "Job already finished")
       /\ UNCHANGED << activeJobs, events >>
  ELSE /\ SumCancellations(MaxJobs) < MaxCancels
       /\ activeJobs' =
            [o \in JobIds |->
               IF o = j \/ activeJobs[o].status = "running"
               THEN [activeJobs[o] EXCEPT !.status = "cancelled", !.ended = TRUE]
               ELSE activeJobs[o]]
       /\ events' =
            [events EXCEPT ![j] =
               Append(@, [Ev("generation_failed") EXCEPT
                            !.error = "Job cancelled by user"])]
       /\ last' = Last("cancel", j, 200, "cancelled")

\* cancelJob taking only a completed job for finished
cancelJobChecksCompletedOnly(j) ==
  IF activeJobs[j].status = "absent"
  THEN /\ last' = Last("cancel", j, 200, "Job not found")
       /\ UNCHANGED << activeJobs, events >>
  ELSE IF activeJobs[j].status = "completed"
  THEN /\ last' = Last("cancel", j, 200, "Job already finished")
       /\ UNCHANGED << activeJobs, events >>
  ELSE /\ SumCancellations(MaxJobs) < MaxCancels
       /\ activeJobs' = [activeJobs EXCEPT ![j].status = "cancelled", ![j].ended = TRUE]
       /\ events' =
            [events EXCEPT ![j] =
               Append(@, [Ev("generation_failed") EXCEPT
                            !.error = "Job cancelled by user"])]
       /\ last' = Last("cancel", j, 200, "cancelled")

\* cancelJob without its emit
cancelJobSilent(j) ==
  IF activeJobs[j].status = "absent"
  THEN /\ last' = Last("cancel", j, 200, "Job not found")
       /\ UNCHANGED << activeJobs, events >>
  ELSE IF activeJobs[j].status = "completed" \/ activeJobs[j].status = "failed"
  THEN /\ last' = Last("cancel", j, 200, "Job already finished")
       /\ UNCHANGED << activeJobs, events >>
  ELSE /\ activeJobs[j].status # "cancelled"
       /\ activeJobs' = [activeJobs EXCEPT ![j].status = "cancelled", ![j].ended = TRUE]
       /\ events' = events
       /\ last' = Last("cancel", j, 200, "cancelled")

\* cancelJob, behind DELETE /api/jobs/:jobId
cancelJob(j) ==
  IF activeJobs[j].status = "absent"
  THEN /\ last' = Last("cancel", j, 200, "Job not found")
       /\ UNCHANGED << activeJobs, events >>
  ELSE IF activeJobs[j].status = "completed" \/ activeJobs[j].status = "failed"
  THEN /\ last' = Last("cancel", j, 200, "Job already finished")
       /\ UNCHANGED << activeJobs, events >>
  ELSE /\ SumCancellations(MaxJobs) < MaxCancels
       /\ activeJobs' = [activeJobs EXCEPT ![j].status = "cancelled", ![j].ended = TRUE]
       /\ events' =
            [events EXCEPT ![j] =
               Append(@, [Ev("generation_failed") EXCEPT
                            !.error = "Job cancelled by user"])]
       /\ last' = Last("cancel", j, 200, "cancelled")

DeleteJob(j) ==
  /\ cancelJob(j)
  /\ UNCHANGED << hookVars, credential, nextJob, pc, loopI, context, agentCalls, timers,
                  immediate, crew >>

\* a sweep deleting any entry of the registry, whatever its status
EnhancedEvictTimerSweepsAny(j) ==
  /\ activeJobs[j].status # "absent"
  /\ timers' = timers \ {j}
  /\ activeJobs' = [activeJobs EXCEPT ![j] = NoJob]
  /\ last' = NoCall
  /\ UNCHANGED << hookVars, credential, nextJob, pc, loopI, context, agentCalls, events,
                  immediate, crew >>

\* the cleanup timer of startGeneration fires: activeJobs.delete(jobId)
EnhancedEvictTimer(j) ==
  /\ j \in timers
  /\ timers' = timers \ {j}
  /\ activeJobs' = [activeJobs EXCEPT ![j] = NoJob]
  /\ last' = NoCall
  /\ UNCHANGED << hookVars, credential, nextJob, pc, loopI, context, agentCalls, events,
                  immediate, crew >>

\* getJobStatus of the enhanced service
EnhancedGetJobStatus(j) ==
  IF activeJobs[j].status = "absent"
  THEN [success |-> FALSE, error |-> "Job not found", status |-> ""]
  ELSE [success |-> TRUE, error |-> activeJobs[j].error,
        status |-> activeJobs[j].status]

Init ==
  /\ credential \in BOOLEAN
  /\ nextJob = 0
  /\ activeJobs = [j \in JobIds |-> NoJob]
  /\ pc = [j \in JobIds |-> "unused"]
  /\ loopI = [j \in JobIds |-> 0]
  /\ context = [j \in JobIds |-> << >>]
  /\ agentCalls = [j \in JobIds |-> << >>]
  /\ events = [j \in JobIds |-> << >>]
  /\ timers = {}
  /\ immediate = [j \in JobIds |-> NoRequest]
  /\ crew = [j \in JobIds |-> << >>]
  /\ last = NoCall
  /\ HookInit

Next ==
  \/ \E body \in Bodies : PostGenerate(body)
  \/ \E j \in JobIds, llmFails \in BOOLEAN : AgentSettles(j, llmFails)
  \/ \E j \in JobIds : SimulateProgress(j)
  \/ \E j \in JobIds : EvictTimer(j)

Spec == Init /\ [][Next]_vars

\* number of jobs submitted in the behaviours checked for termination
MaxFairJobs == 1

\* POST /api/generate, for the jobs of SpecFair
FairPostGenerate(body) ==
  /\ nextJob < MaxFairJobs \/ ~Truthy(body.requirements)
       \/ ~Truthy(body.framework) \/ ~Truthy(body.language)
  /\ PostGenerate(body)

NextFair ==
  \/ \E body \in Bodies : FairPostGenerate(body)
  \/ \E j \in JobIds, llmFails \in BOOLEAN : AgentSettles(j, llmFails)
  \/ \E j \in JobIds : SimulateProgress(j)
  \/ \E j \in JobIds : EvictTimer(j)

\* the service with the scheduling of the event loop: a pending agent call
\* settles (it returns or throws) and the 100 ms timers of the progress loop
\* fire
SpecFair ==
  /\ Init /\ [][NextFair]_vars
  /\ \A j \in JobIds :
       /\ WF_vars(\E llmFails \in BOOLEAN : AgentSettles(j, llmFails))
       /\ WF_vars(SimulateProgress(j))

NextEnhanced ==
  \/ \E body \in Bodies : EnhancedPostGenerate(body)
  \/ \E j \in JobIds : EnhancedStartGeneration(j)
  \/ \E j \in JobIds, llmFails \in BOOLEAN : CrewAgentSettles(j, llmFails)
  \/ \E j \in JobIds : DeleteJob(j)
  \/ \E j \in JobIds : EnhancedEvictTimer(j)

SpecEnhanced == Init /\ [][NextEnhanced]_vars

\* two jobs of the enhanced service side by side: both submissions have
\* been accepted and their setImmediate callbacks are pending.  Independence
\* is a property of two jobs, the one that takes a step and any other one.
InitPair ==
  /\ credential \in BOOLEAN
  /\ nextJob = 2
  /\ activeJobs = [j \in JobIds |-> NoJob]
  /\ pc = [j \in JobIds |-> IF j <= 2 THEN "immediate" ELSE "unused"]
  /\ loopI = [j \in JobIds |-> 0]
  /\ context = [j \in JobIds |-> << >>]
  /\ agentCalls = [j \in JobIds |-> << >>]
  /\ events = [j \in JobIds |-> << >>]
  /\ timers = {}
  /\ immediate \in [JobIds -> {Body(TodoApp, React, Python), NoRequest}]
  /\ \A j \in JobIds : (immediate[j] = NoRequest) <=> (j > 2)
  /\ crew = [j \in JobIds |-> << >>]
  /\ last = Last("generate", 2, 200, "Code generation started")
  /\ HookInit

NextPair ==
  \/ \E j \in JobIds : EnhancedStartGeneration(j)
  \/ \E j \in JobIds, llmFails \in BOOLEAN : CrewAgentSettles(j, llmFails)
  \/ \E j \in JobIds : DeleteJob(j)
  \/ \E j \in JobIds : EnhancedEvictTimer(j)

SpecPair == InitPair /\ [][NextPair]_vars

\* one job of the enhanced service for each language a client may name: the
\* submission has been accepted and its setImmediate callback is pending
SubmittedLanguages ==
  { S(0, w, 4) : w \in DOMAIN Extensions }
  \cup { S(0, "Python", 6), S(0, "TypeScript", 10), S(1, "python", 6),
         S(0, "cobol", 5), S(0, "constructor", 11), S(0, "__proto__", 9) }

InitFiles ==
  /\ credential \in BOOLEAN
  /\ nextJob = 1
  /\ activeJobs = [j \in JobIds |-> NoJob]
  /\ pc = [j \in JobIds |-> IF j = 1 THEN "immediate" ELSE "unused"]
  /\ loopI = [j \in JobIds |-> 0]
  /\ context = [j \in JobIds |-> << >>]
  /\ agentCalls = [j \in JobIds |-> << >>]
  /\ events = [j \in JobIds |-> << >>]
  /\ timers = {}
  /\ \E l \in SubmittedLanguages :
       immediate = [j \in JobIds |->
                      IF j = 1 THEN Body(TodoApp, React, l) ELSE NoRequest]
  /\ crew = [j \in JobIds |-> << >>]
  /\ last = Last("generate", 1, 200, "Code generation started")
  /\ HookInit

NextFiles ==
  \/ \E j \in JobIds : EnhancedStartGeneration(j)
  \/ \E j \in JobIds, llmFails \in BOOLEAN : CrewAgentSettles(j, llmFails)
  \/ \E j \in JobIds : EnhancedEvictTimer(j)

SpecFiles == InitFiles /\ [][NextFiles]_vars

\* ------------------------------------------------- CodeGenerationService
\* number of jobs the model hands to CodeGenerationService.startGeneration
MaxGenerationJobs == 1

\* initializeAgents: the four agents, in this order
initializeAgents ==
  << [id |-> "pm", role |-> "Product Manager"],
     [id |-> "arch", role |-> "Solution Architect"],
     [id |-> "dev", role |-> "Senior Developer"],
     [id |-> "qa", role |-> "QA Engineer"] >>

\* the requests handed to startGeneration
GenerationRequests == { Body(TodoApp, React, Python) }

\* generateRealisticResponse: the simulated text of the agent
generateRealisticResponse(agent, request) == [src |-> "realistic", role |-> agent.role]
\* generateFallbackResponse
generateFallbackResponse(agent, request) == [src |-> "fallback", role |-> agent.role]
\* `${agent.role} response generated`, the text for a reply without content
DefaultContent(agent) == [src |-> "default", role |-> agent.role]

\* what the model call of processAgent does
ModelCallOutcomes == { "text", "empty", "error" }

\* processAgent: the content of the agent's response; modelCall is what the
\* model call did, when there is a client
processAgent(agent, request, cred, modelCall) ==
  IF cred
  THEN CASE modelCall = "text" -> LlmReply(agent.role)
         [] modelCall = "empty" -> DefaultContent(agent)
         [] OTHER -> generateFallbackResponse(agent, request)
  ELSE generateRealisticResponse(agent, request)

\* compileFinalCode: the files named after the agents' ids
compileFinalCode(results, request) ==
  LET ext == getFileExtension(request.language)
      name(id) ==
        CASE id = "pm" -> File("PROJECT_SPEC", "md")
          [] id = "arch" -> File("ARCHITECTURE", "md")
          [] id = "dev" -> File("app", ext)
          [] OTHER -> File("app.test", ext)
  IN [f \in { name(results[k].agentId) : k \in DOMAIN results } |->
        LET k == CHOOSE k \in DOMAIN results :
                   /\ name(results[k].agentId) = f
                   /\ \A m \in DOMAIN results :
                        name(results[m].agentId) = f => m <= k
        IN results[k].content]

\* startGeneration, the top of the loop body for the agent of index i:
\* agent_started is emitted and processAgent is called
StartAgent(j, i, evs, results) ==
  LET agent == initializeAgents[i + 1] IN
  /\ events' = [evs EXCEPT ![j] = Append(@, [Ev("agent_started") EXCEPT !.agent = agent.role])]
  /\ agentCalls' =
       [agentCalls EXCEPT ![j] =
          Append(@, [agent |-> agent.role, context |-> results,
                     result |-> "pending", modelCall |-> "pending"])]
  /\ loopI' = [loopI EXCEPT ![j] = i]
  /\ pc' = [pc EXCEPT ![j] = "agent"]

\* CodeGenerationService.startGeneration up to its first await
GenerationStart(request) ==
  /\ nextJob < MaxGenerationJobs
  /\ LET j == nextJob + 1 IN
     /\ nextJob' = j
     /\ immediate' = [immediate EXCEPT ![j] = request]
     /\ context' = [context EXCEPT ![j] = << >>]
     /\ StartAgent(j, 0, [events EXCEPT ![j] = Append(@, Ev("generation_started"))],
                   << >>)
  /\ last' = NoCall
  /\ UNCHANGED << hookVars, credential, activeJobs, timers, crew >>

\* the awaited processAgent settles: its response is pushed to results and
\* agent_completed is emitted; then the delay between agents is awaited
ProcessAgentSettles(j, modelCall) ==
  /\ pc[j] = "agent"
  /\ modelCall \in (IF credential THEN ModelCallOutcomes ELSE {"none"})
  /\ LET i == loopI[j]
         agent == initializeAgents[i + 1]
         content == processAgent(agent, immediate[j], credential, modelCall)
     IN /\ context' =
             [context EXCEPT ![j] =
                Append(@, [agentId |-> agent.id, role |-> agent.role,
                           content |-> content])]
        /\ events' =
             [events EXCEPT ![j] =
                Append(@, [Ev("agent_completed") EXCEPT
                             !.agent = agent.role, !.output = content])]
        /\ agentCalls' =
             [agentCalls EXCEPT ![j][i + 1].result = "returned",
                                ![j][i + 1].modelCall = modelCall]
  /\ pc' = [pc EXCEPT ![j] = "delay"]
  /\ last' = NoCall
  /\ UNCHANGED << hookVars, credential, nextJob, activeJobs, loopI, timers, immediate, crew >>

\* the delay between agents is over: the next agent, or compileFinalCode and
\* generation_completed
GenerationDelay(j) ==
  /\ pc[j] = "delay"
  /\ LET i == loopI[j] IN
     IF i + 1 < Len(initializeAgents)
     THEN StartAgent(j, i + 1, events, context[j])
     ELSE /\ events' =
               [events EXCEPT ![j] =
                  Append(@, [Ev("generation_completed") EXCEPT
                               !.code = compileFinalCode(context[j], immediate[j])])]
          /\ pc' = [pc EXCEPT ![j] = "done"]
          /\ UNCHANGED << loopI, agentCalls >>
  /\ last' = NoCall
  /\ UNCHANGED << hookVars, credential, nextJob, activeJobs, context, timers, immediate, crew >>

NextGeneration ==
  \/ \E request \in GenerationRequests : GenerationStart(request)
  \/ \E j \in JobIds, modelCall \in ModelCallOutcomes \cup {"none"} :
        ProcessAgentSettles(j, modelCall)
  \/ \E j \in JobIds : GenerationDelay(j)

SpecGeneration == Init /\ [][NextGeneration]_vars

\* ------------------------------------------------------------ useWebSocket
\* number of WebSockets the hook creates in a behaviour
MaxSockets == 3
maxReconnectAttempts == 5
MessageTypes == {"connection_established", "agent_completed"}

\* connect(): nothing when the current socket is open, else a new WebSocket
\* with the hook's handlers becomes the current one
connect ==
  IF ws # 0 /\ sockets[ws].readyState = "OPEN"
  THEN UNCHANGED << ws, sockets, connectionStatus >>
  ELSE /\ Len(sockets) < MaxSockets
       /\ connectionStatus' = "connecting"
       /\ sockets' = Append(sockets, [readyState |-> "CONNECTING"])
       /\ ws' = Len(sockets) + 1

\* connect() called by the effect of the mount or by the component
Connect ==
  /\ connect
  /\ disconnectCalled' = FALSE
  /\ UNCHANGED << lastEvent, clientId, reconnectTimeoutRef, timeouts,
                  reconnectAttempts >>
  /\ UNCHANGED serverVars

\* onopen of socket s
OnOpen(s) ==
  /\ sockets[s].readyState = "CONNECTING"
  /\ sockets' = [sockets EXCEPT ![s].readyState = "OPEN"]
  /\ connectionStatus' = "connected"
  /\ reconnectAttempts' = 0
  /\ UNCHANGED << ws, lastEvent, clientId, reconnectTimeoutRef, timeouts,
                  disconnectCalled >>
  /\ UNCHANGED serverVars

\* onmessage of socket s
OnMessage(s, type) ==
  /\ sockets[s].readyState = "OPEN"
  /\ lastEvent' = type
  /\ clientId' = IF type = "connection_established" THEN s ELSE clientId
  /\ UNCHANGED << ws, sockets, connectionStatus, reconnectTimeoutRef, timeouts,
                  reconnectAttempts, disconnectCalled >>
  /\ UNCHANGED serverVars

\* onclose of socket s: the close event of a socket that failed to connect,
\* lost its connection or was closed with close()
OnClose(s) ==
  /\ sockets[s].readyState # "CLOSED"
  /\ sockets' = [sockets EXCEPT ![s].readyState = "CLOSED"]
  /\ connectionStatus' = "disconnected"
  /\ IF reconnectAttempts < maxReconnectAttempts
     THEN /\ reconnectAttempts' = reconnectAttempts + 1
          /\ reconnectTimeoutRef' = s
          /\ timeouts' = timeouts \cup {s}
     ELSE UNCHANGED << reconnectAttempts, reconnectTimeoutRef, timeouts >>
  /\ UNCHANGED << ws, lastEvent, clientId, disconnectCalled >>
  /\ UNCHANGED serverVars

\* onerror of socket s
OnError(s) ==
  /\ sockets[s].readyState \in {"CONNECTING", "OPEN"}
  /\ connectionStatus' = "error"
  /\ UNCHANGED << ws, sockets, lastEvent, clientId, reconnectTimeoutRef,
                  timeouts, reconnectAttempts, disconnectCalled >>
  /\ UNCHANGED serverVars

\* the reconnect timeout scheduled by the close event of socket t fires
ReconnectTimeout(t) ==
  /\ t \in timeouts
  /\ timeouts' = timeouts \ {t}
  /\ connect
  /\ UNCHANGED << lastEvent, clientId, reconnectTimeoutRef, reconnectAttempts,
                  disconnectCalled >>
  /\ UNCHANGED serverVars

\* disconnect(): clearTimeout of the last scheduled timeout, close() of the
\* current socket, whose handlers stay attached
Disconnect ==
  /\ timeouts' = timeouts \ {reconnectTimeoutRef}
  /\ IF ws # 0
     THEN /\ sockets' =
               [sockets EXCEPT ![ws].readyState =
                  IF @ \in {"CONNECTING", "OPEN"} THEN "CLOSING" ELSE @]
          /\ ws' = 0
     ELSE UNCHANGED << ws, sockets >>
  /\ connectionStatus' = "disconnected"
  /\ clientId' = 0
  /\ disconnectCalled' = TRUE
  /\ UNCHANGED << lastEvent, reconnectTimeoutRef, reconnectAttempts >>
  /\ UNCHANGED serverVars

NextSocket ==
  \/ Connect
  \/ \E s \in DOMAIN sockets : OnOpen(s)
  \/ \E s \in DOMAIN sockets, type \in MessageTypes : OnMessage(s, type)
  \/ \E s \in DOMAIN sockets : OnClose(s)
  \/ \E s \in DOMAIN sockets : OnError(s)
  \/ \E t \in timeouts : ReconnectTimeout(t)
  \/ Disconnect

SpecSocket == Init /\ [][NextSocket]_vars

\* ------------------------------------------------------------- properties
\* the four roles in stage order: requirements, architecture,
\* implementation, quality
FixedRoleOrder ==
  << "Product Manager", "Solution Architect", "Senior Developer", "QA Engineer" >>

\* the events of one type sent for job j, in order
EventsOfType(j, type) == SelectSeq(events[j], LAMBDA e : e.type = type)
\* the roles of the agent_started events of job j, in order
StartedRoles(j) ==
  LET s == EventsOfType(j, "agent_started") IN [k \in 1..Len(s) |-> s[k].agent]
\* how many events of a type are among the first p events of job j
CountUpTo(j, p, type) ==
  Len(SelectSeq(SubSeq(events[j], 1, p), LAMBDA e : e.type = type))

\* C1: every accepted submission creates a job of exactly four stages in the
\* fixed role order; the agent_started events of a job come in that order,
\* and a stage is started only after the previous stage of the job has left
\* in_progress (its agent_completed event precedes the next agent_started).
C1_StagesInFixedOrder ==
  \A j \in JobIds :
    /\ (activeJobs[j].status # "absent") =>
         /\ Len(activeJobs[j].tasks) = 4
         /\ [k \in 1..4 |-> activeJobs[j].tasks[k].agent] = FixedRoleOrder
         /\ \A k \in 2..4 :
              activeJobs[j].tasks[k].status # "pending" =>
                activeJobs[j].tasks[k - 1].status \notin {"pending", "in_progress"}
    /\ (j <= nextJob) => Len(StartedRoles(j)) >= 1
    /\ Len(StartedRoles(j)) <= 4
    /\ StartedRoles(j) = SubSeq(FixedRoleOrder, 1, Len(StartedRoles(j)))
    /\ \A p \in DOMAIN events[j] :
         events[j][p].type = "agent_started" =>
           LET k == CountUpTo(j, p, "agent_started") IN
           /\ CountUpTo(j, p, "agent_completed") = k - 1
           /\ k > 1 =>
                \E q \in 1..(p - 1) :
                  /\ events[j][q].type = "agent_completed"
                  /\ events[j][q].agent = FixedRoleOrder[k - 1]

\* a job whose four stages have all been started
C1_Witness == \E j \in JobIds : Len(StartedRoles(j)) = 4

\* the stages of job j that are in_progress
InProgress(j) ==
  { k \in DOMAIN activeJobs[j].tasks : activeJobs[j].tasks[k].status = "in_progress" }

\* C2: in every reachable state every job has at most one stage in_progress,
\* also while several jobs run at the same time.
C2_AtMostOneInProgress == \A j \in JobIds : Cardinality(InProgress(j)) <= 1

\* two jobs run at the same time, each with a stage in_progress, one of them
\* past its first stage
C2_Witness ==
  /\ \A j \in 1..2 : Cardinality(InProgress(j)) = 1
  /\ \E j \in 1..2 : activeJobs[j].tasks[1].status = "completed"

\* the context the agent of stage k of job j must be given: the pieces of
\* the stages 1..k-1, with the outputs the agent_completed events carry
ExpectedContext(j, k) ==
  LET done == EventsOfType(j, "agent_completed") IN
  [i \in 1..(k - 1) |->
     [sep |-> "\n\n", role |-> FixedRoleOrder[i], label |-> " Output:\n",
      output |-> done[i].output]]

\* C3: the context passed to the agent of stage k is the concatenation, in
\* completion order, of the outputs of the stages 1..k-1 and of nothing
\* else; it is empty for stage 1.
C3_ContextIsEarlierOutputs ==
  \A j \in JobIds : \A k \in DOMAIN agentCalls[j] :
    /\ agentCalls[j][k].agent = FixedRoleOrder[k]
    /\ Len(EventsOfType(j, "agent_completed")) >= k - 1
    /\ agentCalls[j][k].context = ExpectedContext(j, k)
    /\ k = 1 => agentCalls[j][k].context = << >>
    /\ \A i \in 1..(k - 1) :
         /\ EventsOfType(j, "agent_completed")[i].agent = FixedRoleOrder[i]
         /\ activeJobs[j].status # "absent" =>
              activeJobs[j].tasks[i].output = agentCalls[j][k].context[i].output

\* the agent of the fourth stage has been called with the three outputs
C3_Witness ==
  \E j \in JobIds :
    /\ Len(agentCalls[j]) = 4
    /\ Len(agentCalls[j][4].context) = 3
    /\ agentCalls[j][4].context[3].output = LlmReply("Senior Developer")

\* C4: when the agent call of a stage fails, the stage ends failed, no later
\* stage of the job leaves pending (no later agent is called) and the job's
\* status is failed from then on.
C4_FailureIsFatal ==
  \A j \in JobIds : \A k \in DOMAIN agentCalls[j] :
    agentCalls[j][k].result = "threw" =>
      /\ Len(agentCalls[j]) = k
      /\ Len(StartedRoles(j)) = k
      /\ activeJobs[j].status = "failed"
      /\ activeJobs[j].tasks[k].status = "failed"
      /\ \A m \in (k + 1)..4 : activeJobs[j].tasks[m].status = "pending"
      /\ events[j][Len(events[j])].type = "generation_failed"

\* the agent of the second stage failed
C4_Witness ==
  \E j \in JobIds :
    /\ Len(agentCalls[j]) = 2
    /\ agentCalls[j][2].result = "threw"
    /\ activeJobs[j].tasks[1].status = "completed"

\* the file names of a generation_completed event of CrewService
FileNames(e) == { e.files[q].path : q \in DOMAIN e.files }

\* C5: when all four stages succeeded the job is completed and the files of
\* its completion event include PROJECT_SPECIFICATION.md, ARCHITECTURE.md,
\* main.<ext> and tests.<ext>, <ext> being the extension of the submitted
\* language.
C5_ArtifactsNamedByRole ==
  \A j \in JobIds : \A p \in DOMAIN events[j] :
    events[j][p].type = "generation_completed" =>
      LET ext == getFileExtension(events[j][1].language) IN
      /\ \A k \in 1..4 : agentCalls[j][k].result = "returned"
      /\ activeJobs[j].status \in {"completed", "absent"}
      /\ { File("PROJECT_SPECIFICATION", "md"), File("ARCHITECTURE", "md"),
           File("main", ext), File("tests", ext) } \subseteq FileNames(events[j][p])

\* C6: cancel on a completed or failed job answers "Job already finished",
\* leaves every field of every job as it was and emits no event.
C6_CancelFinishedJob ==
  [][\A j \in JobIds :
       (/\ activeJobs[j].status \in {"completed", "failed"}
        /\ last'.op = "cancel"
        /\ last'.job = j)
       => /\ last'.result = "Job already finished"
          /\ activeJobs' = activeJobs
          /\ events' = events]_vars

\* cancel has answered "Job already finished" for a failed job
C6_Witness ==
  /\ last.op = "cancel"
  /\ last.result = "Job already finished"
  /\ activeJobs[last.job].status = "failed"

\* the event cancelJob emits
CancelledByUser == [Ev("generation_failed") EXCEPT !.error = "Job cancelled by user"]

\* C7: cancel on a running job sets its status to cancelled and emits
\* exactly one event, a generation_failed of that job with the reason
\* "Job cancelled by user".
C7_CancelRunningJob ==
  [][\A j \in JobIds :
       (/\ activeJobs[j].status = "running"
        /\ last'.op = "cancel"
        /\ last'.job = j)
       => /\ last'.result = "cancelled"
          /\ activeJobs'[j].status = "cancelled"
          /\ events'[j] = Append(events[j], CancelledByUser)
          /\ \A o \in JobIds \ {j} : events'[o] = events[o]]_vars

\* cancel has just cancelled a job that was running
C7_Witness ==
  /\ last.op = "cancel"
  /\ last.result = "cancelled"
  /\ activeJobs[last.job].status = "cancelled"
  /\ Cancellations(last.job) = 1

C9_CancelCancelledJob ==
  [][\A j \in JobIds :
       (/\ activeJobs[j].status = "cancelled"
        /\ last'.op = "cancel"
        /\ last'.job = j)
       => /\ last'.result = "Job already finished"
          /\ activeJobs' = activeJobs
          /\ events' = events]_vars

\* the three violations of a request whose fields are all empty
ThreeViolations ==
  << "Requirements are required and cannot be empty",
     "Framework is required and cannot be empty",
     "Language is required and cannot be empty" >>

\* C10: a submission whose requirements, framework and language are all
\* empty is rejected with an error naming all three fields: the route
\* answers 400 with the three fields and creates no job, and
\* startGeneration, given a request of three empty fields, registers no job
\* and reports the three violations, one per field.
C10_AllEmptyRejected ==
  [][/\ EnhancedPostGenerate(NoRequest) =>
          /\ last'.status = 400
          /\ last'.result = "Missing required fields: requirements, framework, language"
          /\ UNCHANGED << nextJob, activeJobs, events, immediate, pc >>
     /\ \A j \in JobIds :
          (pc[j] = "immediate" /\ pc'[j] # "immediate" /\ immediate[j] = NoRequest) =>
            /\ activeJobs'[j] = NoJob
            /\ agentCalls'[j] = << >>
            /\ events'[j] =
                 Append(events[j], [Ev("generation_failed") EXCEPT
                                      !.error = "Validation failed",
                                      !.details = ThreeViolations])]_vars

\* startGeneration has reported the three violations of an empty request
C10_Witness ==
  \E j \in JobIds :
    /\ immediate[j] = NoRequest
    /\ pc[j] = "done"
    /\ \E p \in DOMAIN events[j] : events[j][p].details = ThreeViolations

\* C11: a submission that fails validation gets no job id, no entry in the
\* registry, no stage and no event: every job id handed out belongs to a
\* request without violation.
C11_NoJobForInvalidSubmission ==
  \A j \in JobIds :
    (pc[j] # "unused" /\ Len(validateGenerationRequest(immediate[j])) > 0) =>
      /\ j > nextJob
      /\ activeJobs[j] = NoJob
      /\ crew[j] = << >>
      /\ events[j] = << >>

\* C12: a submission whose requirements are longer than 10,000 characters is
\* answered with an error and no job id, and no job is created for it.
C12_TooLongRejected ==
  [][\A body \in Bodies :
       (Length(body.requirements) > MaxRequirementsLength /\ PostGenerate(body))
       => /\ last'.status # 200
          /\ last'.job = 0
          /\ nextJob' = nextJob
          /\ activeJobs' = activeJobs
          /\ events' = events]_vars

\* job j has sent its generation_completed event
CompletedSent(j) == \E p \in DOMAIN events[j] : events[j][p].type = "generation_completed"

\* C13: a completed job answers the status query from its completion until
\* its retention timer fires and is not found from then on: it is in the
\* registry exactly while the timer is pending, it leaves the registry only
\* in the step of that timer, and that step removes it.
C13_CompletedJobRetention ==
  [][\A j \in JobIds :
       /\ CompletedSent(j)' =>
            \/ /\ activeJobs'[j].status = "completed"
               /\ j \in timers'
               /\ GetJob(j)' = Last("status", j, 200, "completed")
            \/ /\ activeJobs'[j] = NoJob
               /\ j \notin timers'
               /\ GetJob(j)' = Last("status", j, 404, "Job not found")
       /\ (activeJobs[j].status = "completed" /\ activeJobs'[j] # activeJobs[j]) =>
            (j \in timers /\ j \notin timers' /\ activeJobs'[j] = NoJob)
       /\ (j \in timers /\ j \notin timers') => activeJobs'[j] = NoJob]_vars

\* a completed job has been evicted and its status query answers 404
C13_Witness ==
  \E j \in JobIds :
    /\ CompletedSent(j)
    /\ activeJobs[j] = NoJob
    /\ GetJob(j).status = 404

\* C14: a failed job is scheduled for eviction like a completed one: while
\* it is in the registry its eviction timer is pending.
C14_FailedJobEvicted ==
  \A j \in JobIds : activeJobs[j].status = "failed" => j \in timers

\* C15: every job in a terminal state has had that state broadcast, and
\* while it is in the registry the status query answers that state, for a
\* failed job with the failure reason of its generation_failed event.
C15_TerminalStateRetrievable ==
  \A j \in JobIds :
    /\ activeJobs[j].status = "completed" => CompletedSent(j)
    /\ activeJobs[j].status = "failed" =>
         \E p \in DOMAIN events[j] : events[j][p].type = "generation_failed"
    /\ \A p \in DOMAIN events[j] :
         activeJobs[j] # NoJob =>
           /\ events[j][p].type = "generation_completed" =>
                getJobStatus(j).status = "completed"
           /\ events[j][p].type = "generation_failed" =>
                /\ getJobStatus(j).status = "failed"
                /\ getJobStatus(j).error # ""
                /\ getJobStatus(j).error = events[j][p].error

\* the stages of job j that are completed
CompletedStages(j) ==
  { k \in DOMAIN activeJobs[j].tasks : activeJobs[j].tasks[k].status = "completed" }

\* C16: while a job runs its progress is (completed stages / 4) x 100, and
\* it is 100 once the job is completed.
C16_ProgressIsCompletedShare ==
  \A j \in JobIds :
    /\ activeJobs[j].status = "in_progress" =>
         activeJobs[j].progress = (Cardinality(CompletedStages(j)) * 100) \div 4
    /\ activeJobs[j].status = "completed" => activeJobs[j].progress = 100

\* C17: when the model call of a stage errors the agent fails instead of
\* returning text: the stage sends no agent_completed, no later agent is
\* called and the job ends with generation_failed.
C17_ModelErrorFailsJob ==
  \A j \in JobIds : \A k \in DOMAIN agentCalls[j] :
    agentCalls[j][k].modelCall = "error" =>
      /\ agentCalls[j][k].result # "returned"
      /\ Len(agentCalls[j]) = k
      /\ Len(EventsOfType(j, "agent_completed")) = k - 1
      /\ events[j][Len(events[j])].type = "generation_failed"

C19_NoRetry ==
  [][\A j \in JobIds :
       /\ Len(agentCalls'[j]) <= 4
       /\ \A k, m \in DOMAIN agentCalls'[j] :
            agentCalls'[j][k].agent = agentCalls'[j][m].agent => k = m
       /\ Len(StartedRoles(j)') = Len(agentCalls'[j])
       /\ \A k \in DOMAIN activeJobs[j].tasks :
            activeJobs[j].tasks[k].status = "failed" =>
              /\ activeJobs'[j].status = "failed"
              /\ activeJobs'[j].tasks[k].status = "failed"
              /\ agentCalls'[j] = agentCalls[j]]_vars

\* the third stage of a job failed after three agent calls, and the other
\* job has gone on
C19_Witness ==
  \E j \in JobIds :
    /\ Len(agentCalls[j]) = 3
    /\ activeJobs[j].tasks[3].status = "failed"
    /\ \E o \in JobIds \ {j} : Len(agentCalls[o]) = 4

\* the step emits a generation_failed event of job j (a failed stage, a
\* failed validation or a cancellation)
FailureStep(j) ==
  /\ events'[j] # events[j]
  /\ events'[j][Len(events'[j])].type = "generation_failed"
\* the step evicts job j
EvictionStep(j) == j \in timers /\ j \notin timers'

\* C20: jobs are independent: a step in which a job fails, is cancelled or
\* is evicted leaves the registry entry (status, progress), the stages, the
\* events and the position of every other job unchanged.
C20_JobsIndependent ==
  [][\A j \in JobIds :
       (FailureStep(j) \/ EvictionStep(j) \/ (last'.op = "cancel" /\ last'.job = j))
       => \A o \in JobIds \ {j} :
            /\ activeJobs'[o] = activeJobs[o]
            /\ crew'[o] = crew[o]
            /\ events'[o] = events[o]
            /\ agentCalls'[o] = agentCalls[o]
            /\ pc'[o] = pc[o]
            /\ (o \in timers') <=> (o \in timers)]_vars

\* one job has just been cancelled while the other one is running
C20_Witness ==
  /\ last.op = "cancel"
  /\ last.result = "cancelled"
  /\ \E o \in JobIds \ {last.job} :
       /\ activeJobs[o].status = "running"
       /\ Len(agentCalls[o]) >= 2

\* C21: every accepted job reaches a terminal state, provided every agent
\* call returns or fails: a job that is in_progress is eventually completed
\* or failed.
C21_JobTerminates ==
  \A j \in JobIds :
    (activeJobs[j].status = "in_progress")
      ~> (activeJobs[j].status \in {"completed", "failed"})

\* a job has ended failed in its fourth stage
C21_Witness ==
  \E j \in JobIds :
    /\ activeJobs[j].status = "failed"
    /\ activeJobs[j].tasks[4].status = "failed"
    /\ pc[j] = "done"

\* C22: submit is fire-and-forget: a request with its three fields is
\* answered with success and the job id in the step that accepts it, when
\* the call of the first agent is still pending and no stage has ended.
C22_FireAndForget ==
  [][\A body \in Bodies :
       (/\ Truthy(body.requirements) /\ Truthy(body.framework) /\ Truthy(body.language)
        /\ PostGenerate(body))
       => /\ last' = Last("generate", nextJob', 200, "Code generation started")
          /\ nextJob' = nextJob + 1
          /\ activeJobs'[nextJob'].status = "in_progress"
          /\ \A k \in DOMAIN agentCalls'[nextJob'] :
               agentCalls'[nextJob'][k].result = "pending"
          /\ \A k \in 1..4 :
               activeJobs'[nextJob'].tasks[k].status \in {"pending", "in_progress"}
          /\ EventsOfType(nextJob, "agent_completed")' = << >>]_vars

\* the second job has just been answered while its first agent call is
\* pending, after the first job has failed
C22_Witness ==
  /\ last = Last("generate", 2, 200, "Code generation started")
  /\ agentCalls[2] # << >>
  /\ agentCalls[2][1].result = "pending"
  /\ activeJobs[1].status = "failed"

\* the language is a key of the table of getFileExtension, whatever its case
InTable(language) ==
  language.pad = 0 /\ toLowerCase(language).word \in DOMAIN Extensions
\* the generation_completed events of job j
CompletedEvents(j) == EventsOfType(j, "generation_completed")
\* the language job j was started with
StartedLanguage(j) == events[j][1].language

\* C23: the file of the implementer carries the table's extension when the
\* job's language is in the table and txt when it is not.
C23_LookupTableOrTxt ==
  \A j \in JobIds :
    \A k \in DOMAIN CompletedEvents(j) :
      LET l == StartedLanguage(j)
          ext == IF InTable(l) THEN Extensions[toLowerCase(l).word] ELSE "txt"
      IN File("main", ext) \in DOMAIN CompletedEvents(j)[k].code

\* C24: the main field of the generated package.json names the implementer's
\* file of the artifact map, and the tests file has the same extension.
C24_MainNamesImplementerFile ==
  \A j \in JobIds :
    \A k \in DOMAIN CompletedEvents(j) :
      LET code == CompletedEvents(j)[k].code
          main == code[File("package", "json")].main
      IN /\ main.base = "main"
         /\ main \in DOMAIN code
         /\ code[main].role = "Senior Developer"
         /\ File("tests", main.ext) \in DOMAIN code

\* a python job has completed with main.py, tests.py and a package.json
\* whose main is main.py
C24_Witness ==
  \E j \in JobIds :
    /\ CompletedEvents(j) # << >>
    /\ toLowerCase(StartedLanguage(j)).word = "python"
    /\ {File("main", "py"), File("tests", "py")} \subseteq DOMAIN CompletedEvents(j)[1].code
    /\ CompletedEvents(j)[1].code[File("package", "json")].main = File("main", "py")

\* the roles of the agent_completed events of job j, in order
CompletedRoles(j) ==
  LET s == EventsOfType(j, "agent_completed") IN [k \in 1..Len(s) |-> s[k].agent]

\* the stages of job j: the tasks of its record, or of its crew; none once
\* the record has been deleted
Stages(j) == IF crew[j] # << >> THEN crew[j] ELSE activeJobs[j].tasks

\* C25: generation_completed is emitted at most once per job, and only for
\* a job whose four stages have all completed.
C25_CompletedOnceAfterFourStages ==
  \A j \in JobIds :
    /\ Len(CompletedEvents(j)) <= 1
    /\ CompletedEvents(j) # << >> =>
         /\ CompletedRoles(j) = FixedRoleOrder
         /\ \A k \in DOMAIN Stages(j) : Stages(j)[k].status = "completed"

\* a job has emitted generation_completed and its record shows four
\* completed stages, while another job has failed without the event
C25_Witness ==
  \E j, o \in JobIds :
    /\ Len(CompletedEvents(j)) = 1
    /\ Len(Stages(j)) = NumAgents
    /\ \A k \in DOMAIN Stages(j) : Stages(j)[k].status = "completed"
    /\ activeJobs[o].status = "failed"
    /\ CompletedEvents(o) = << >>

StageEventTypes == {"agent_started", "agent_completed"}
TerminalEventTypes == {"generation_completed", "generation_failed"}

\* C26: per job, generation_started precedes every stage event, the
\* agent_started of a stage precedes its agent_completed, and a terminal
\* event follows every agent_started and agent_completed event.
C26_EventsInExecutionOrder ==
  \A j \in JobIds :
    \A p, q \in DOMAIN events[j] :
      /\ events[j][p].type \in StageEventTypes =>
           \E s \in 1..(p - 1) : events[j][s].type = "generation_started"
      /\ (/\ events[j][p].type = "agent_started"
          /\ events[j][q].type = "agent_completed"
          /\ events[j][p].agent = events[j][q].agent) => p < q
      /\ (/\ events[j][p].type \in TerminalEventTypes
          /\ events[j][q].type \in StageEventTypes) => q < p

\* C27: an entry leaves the registry only when its job's status is
\* terminal; a running job is never removed.
C27_OnlyTerminalJobsDeleted ==
  [][\A j \in JobIds :
       (activeJobs[j].status # "absent" /\ activeJobs'[j].status = "absent")
         => activeJobs[j].status \in {"completed", "failed", "cancelled"}]_vars

\* the entry of an ended job has been deleted while another job is running
C27_Witness ==
  \E j, o \in JobIds :
    /\ activeJobs[j].status = "absent"
    /\ \E p \in DOMAIN events[j] : events[j][p].type \in TerminalEventTypes
    /\ j \notin timers
    /\ activeJobs[o].status = "running"

TerminalStatuses == {"completed", "failed", "cancelled"}

\* C28: terminal states are absorbing: a status that is completed, failed
\* or cancelled is not changed to another status by any later step (the
\* record may only be deleted).
C28_TerminalStatusAbsorbing ==
  [][\A j \in JobIds :
       activeJobs[j].status \in TerminalStatuses
         => activeJobs'[j].status \in {activeJobs[j].status, "absent"}]_vars

\* C29: at most one terminal event is emitted for a job over its whole life.
C29_AtMostOneTerminalEvent ==
  \A j \in JobIds :
    Len(EventsOfType(j, "generation_completed"))
      + Len(EventsOfType(j, "generation_failed")) <= 1

\* C30: after disconnect() the hook creates no WebSocket until connect() is
\* called again; the close event of the socket that disconnect() closed
\* leaves no reconnect timeout behind.
C30_NoReconnectAfterDisconnect ==
  [][(disconnectCalled /\ disconnectCalled')
       => /\ Len(sockets') = Len(sockets)
          /\ timeouts' \subseteq timeouts]_vars

====
